---- MODULE Spec2Model ----
(***************************************************************************)
(* A model of the itrftools package: the SSC station catalog query         *)
(* (itrfssc.itrf_extrapolate), the PSD catalog query                       *)
(* (compute_psd.compute_psd) and the parametric model evaluator            *)
(* (parametric.parametric).                                                *)
(*                                                                         *)
(* Conventions.                                                            *)
(*  - A catalog file is a sequence of lines; a line is a record of the     *)
(*    fields the code slices out of its fixed columns.  readline() at end  *)
(*    of file yields EOF (Python's '').                                    *)
(*  - An instant (datetime) is <<day, sec, usec>>, day counted from        *)
(*    0001-01-01 (= 0), compared lexicographically.                        *)
(*  - A Python float is a fixed-point integer with Scale units per 1.0;    *)
(*    division truncates toward zero.  math.log and math.exp are computed  *)
(*    by their power series on that representation.                        *)
(*  - A Python call either returns a value, [ok |-> TRUE, val |-> v], or   *)
(*    raises, [ok |-> FALSE, exc |-> "<exception class>"].                 *)
(***************************************************************************)
EXTENDS Integers, Sequences, FiniteSets, TLC

VARIABLES
  now_year,     \* datetime.datetime.now().year of the process
  \* ---- itrf_extrapolate(ssc_file, t0, t, station, domes)
  ssc_file,     \* the lines of the .SSC file
  ssc_t0,       \* argument t0
  ssc_t,        \* argument t
  ssc_station,  \* argument station, as the caller gave it
  ssc_domes,    \* argument domes
  ssc_pc,       \* "start" | "scan" | "done" | "raised"
  ssc_open,     \* whether the file object of the with-block is open
  ssc_pos,      \* number of lines consumed from the stream
  ssc_line,     \* local `line`
  results,      \* local `results`
  ssc_ret,      \* <<value returned>>, <<>> until the call returns
  ssc_exc,      \* the exception that left the call ("" when none)
  \* ---- compute_psd(psd_file, t, station, domes)
  psd_file,     \* the lines of the PSD file
  psd_t,        \* argument t
  psd_station,  \* argument station (None when not given)
  psd_domes,    \* argument domes (None when not given)
  psd_pc,       \* "start" | "scan" | "done" | "raised"
  psd_open,     \* whether the file object of the with-block is open
  psd_pos,      \* number of lines consumed from the stream
  psd_line,     \* local `line`
  acc,          \* locals de, dn, du, num_of_psd, sta_def, dms_def
  psd_ret,      \* <<value returned>>, <<>> until the call returns
  psd_exc,      \* the exception that left the call ("" when none)
  \* ---- itrf_tool.py, the command-line script
  tool_args,    \* the parsed command line: stations, domes, ssc_file,
                \* psd_file and t (from --year and --doy)
  tool_pc,      \* "start" | "done" | "raised"
  tool_out,     \* the result lines printed by the last loop
  tool_exc,     \* the exception that ended the script ("" when none)
  \* ---- a direct call of parametric() or of time_str2dt()
  fn_call,      \* the function called and its arguments
  fn_ret        \* <<what the call came to>>, <<>> until it ends

ssc_vars == <<ssc_file, ssc_t0, ssc_t, ssc_station, ssc_domes, ssc_pc,
              ssc_open, ssc_pos, ssc_line, results, ssc_ret, ssc_exc>>
psd_vars == <<psd_file, psd_t, psd_station, psd_domes, psd_pc, psd_open,
              psd_pos, psd_line, acc, psd_ret, psd_exc>>
tool_vars == <<tool_args, tool_pc, tool_out, tool_exc>>
fn_vars == <<fn_call, fn_ret>>
vars == <<now_year, ssc_vars, psd_vars, tool_vars, fn_vars>>

----------------------------------------------------------------------------
(* Bounds of the model. *)

\* Most station records in an SSC file.
MaxRecords == 2
\* Most events in a PSD file.
MaxEvents == 2
\* Fixed-point units per 1.0 of a modelled float.
Scale == 1000

(* Program constants. *)
SecPerDay == 86400
\* 365.25 days per year, as DaysPer4Years / 4
DaysPer4Years == 1461
\* read_header skips this many lines after the first
HeaderSkip == 6
\* get_psd_model: model tags are 0 .. NumModels-1
NumModels == 5

----------------------------------------------------------------------------
(* Python values *)

EOF == [kind |-> "eof"]

Ok(v) == [ok |-> TRUE, val |-> v]
Raise(e) == [ok |-> FALSE, exc |-> e]

Abs(x) == IF x < 0 THEN -x ELSE x
Sgn(x) == IF x < 0 THEN -1 ELSE IF x > 0 THEN 1 ELSE 0
\* float division of two fixed-point magnitudes rounds; here: toward zero
TDiv(a, b) == Sgn(a) * Sgn(b) * (Abs(a) \div Abs(b))

\* sequence membership, Python's `x in list`
InList(x, l) == \E i \in 1..Len(l) : l[i] = x

\* str.upper() on a string held as a tuple of characters
LowerLetters == <<"a","b","c","d","e","f","g","h","i","j","k","l","m",
                  "n","o","p","q","r","s","t","u","v","w","x","y","z">>
UpperLetters == <<"A","B","C","D","E","F","G","H","I","J","K","L","M",
                  "N","O","P","Q","R","S","T","U","V","W","X","Y","Z">>
UpperChar(c) ==
  IF \E i \in 1..Len(LowerLetters) : LowerLetters[i] = c
  THEN UpperLetters[CHOOSE i \in 1..Len(LowerLetters) : LowerLetters[i] = c]
  ELSE c
Upper(s) == [i \in 1..Len(s) |-> UpperChar(s[i])]

----------------------------------------------------------------------------
(* datetime *)

\* days from 0001-01-01 to Jan 1 of year y (datetime(y,1,1).toordinal() - 1)
OrdJan1(y) ==
  365 * (y - 1) + ((y - 1) \div 4) - ((y - 1) \div 100) + ((y - 1) \div 400)

DatetimeMin == <<0, 0, 0>>
DatetimeMax == <<OrdJan1(10000) - 1, SecPerDay - 1, 999999>>

\* a < b and a <= b on instants
DtLt(a, b) ==
  \/ a[1] < b[1]
  \/ a[1] = b[1] /\ a[2] < b[2]
  \/ a[1] = b[1] /\ a[2] = b[2] /\ a[3] < b[3]
DtLe(a, b) == a = b \/ DtLt(a, b)

\* a - b, a normalised timedelta: 0 <= seconds < 86400, 0 <= microseconds
TimeDelta(a, b) ==
  LET us == a[3] - b[3]
      s  == a[2] - b[2] + (IF us < 0 THEN -1 ELSE 0)
      d  == a[1] - b[1] + (IF s < 0 THEN -1 ELSE 0)
  IN [days |-> d,
      seconds |-> IF s < 0 THEN s + SecPerDay ELSE s,
      microseconds |-> IF us < 0 THEN us + 1000000 ELSE us]

\* (dt.days + dt.seconds/86400e0)/365.25 as a fixed-point float
FractionalYears(dt) ==
  TDiv((dt.days * Scale + TDiv(dt.seconds * Scale, SecPerDay)) * 4,
       DaysPer4Years)

\* compute_psd.time_str2dt on "YY:DDD:SSSSS", held as [yy, doy, sec]
time_str2dt(s, now) ==
  LET yr == IF now > s.yy + 2000 THEN s.yy + 2000 ELSE s.yy + 1900
  IN <<OrdJan1(yr) + (s.doy - 1) + (s.sec \div SecPerDay),
       s.sec % SecPerDay, 0>>

\* time_str2dt of src/python/compute_psd.py, the script beside the package:
\* the same lines with `now.year < cyr+2000` as the test
time_str2dt_script(s, now) ==
  LET yr == IF now < s.yy + 2000 THEN s.yy + 2000 ELSE s.yy + 1900
  IN <<OrdJan1(yr) + (s.doy - 1) + (s.sec \div SecPerDay),
       s.sec % SecPerDay, 0>>

\* the string "00:000:00000"
Sentinel == [yy |-> 0, doy |-> 0, sec |-> 0]

----------------------------------------------------------------------------
(* Files *)

\* fstream.readline(): the next line and the new position; '' at end of file
ReadLine(file, pos) ==
  IF pos < Len(file)
  THEN [line |-> file[pos + 1], pos |-> pos + 1]
  ELSE [line |-> EOF, pos |-> pos]

\* pos after n more readline() calls whose result is dropped
SkipLines(file, pos, n) == IF pos + n < Len(file) THEN pos + n ELSE Len(file)

\* A whitespace-separated token: a word, or text that float() accepts
Word(w) == [s |-> w, num |-> FALSE, f |-> 0]
Num(w, v) == [s |-> w, num |-> TRUE, f |-> v]

----------------------------------------------------------------------------
(* itrfssc.py *)

\* line.split() of the first line; only a header line carries tokens here,
\* any other first line does not split into the 8 tokens of a header
HeaderTokens(line) == IF line.kind = "hdr" THEN line.l ELSE <<>>

\* read_header without the assert on the keywords
read_header_NoKeywords(file, pos) ==
  LET r == ReadLine(file, pos)
      l == HeaderTokens(r.line)
  IN IF Len(l) # 8 THEN [ok |-> FALSE, exc |-> "AssertionError", pos |-> r.pos]
     ELSE IF ~ l[6].num
     THEN [ok |-> FALSE, exc |-> "ValueError", pos |-> r.pos]
     ELSE LET refepoch == TDiv(l[6].f, Scale)
          IN IF refepoch * Scale # l[6].f
             THEN [ok |-> FALSE, exc |-> "AssertionError", pos |-> r.pos]
             ELSE IF refepoch < 1 \/ refepoch > 9999
             THEN [ok |-> FALSE, exc |-> "ValueError",
                   pos |-> SkipLines(file, r.pos, HeaderSkip)]
             ELSE [ok |-> TRUE, exc |-> "",
                   pos |-> SkipLines(file, r.pos, HeaderSkip),
                   refframe |-> l[1].s,
                   refepoch |-> <<OrdJan1(refepoch), 0, 0>>]

read_header(file, pos) ==
  LET r == ReadLine(file, pos)
      l == HeaderTokens(r.line)
  IN IF Len(l) # 8 THEN [ok |-> FALSE, exc |-> "AssertionError", pos |-> r.pos]
     ELSE IF ~ ( l[2].s = "STATION" /\ l[3].s = "POSITIONS" /\ l[4].s = "AT"
                 /\ l[5].s = "EPOCH" /\ l[7].s = "AND"
                 /\ l[8].s = "VELOCITIES" )
     THEN [ok |-> FALSE, exc |-> "AssertionError", pos |-> r.pos]
     ELSE IF ~ l[6].num
     THEN [ok |-> FALSE, exc |-> "ValueError", pos |-> r.pos]
     ELSE LET refepoch == TDiv(l[6].f, Scale)
          IN IF refepoch * Scale # l[6].f
             THEN [ok |-> FALSE, exc |-> "AssertionError", pos |-> r.pos]
             ELSE IF refepoch < 1 \/ refepoch > 9999
             THEN [ok |-> FALSE, exc |-> "ValueError",
                   pos |-> SkipLines(file, r.pos, HeaderSkip)]
             ELSE [ok |-> TRUE, exc |-> "",
                   pos |-> SkipLines(file, r.pos, HeaderSkip),
                   refframe |-> l[1].s,
                   refepoch |-> <<OrdJan1(refepoch), 0, 0>>]

\* The validity fields of a position line: lines 72-82.  No ':' after column
\* 36 leaves the defaults; two date tokens are resolved, the sentinel keeping
\* the default; any other count fails the assert, the bare except swallows
\* it, and the date text then reaches float() at line 83.
Validity(dates, now) ==
  IF Len(dates) = 0
  THEN Ok([start |-> DatetimeMin, stop |-> DatetimeMax])
  ELSE IF Len(dates) # 2 THEN Raise("ValueError")
  ELSE Ok([start |-> IF dates[1] # Sentinel THEN time_str2dt(dates[1], now)
                     ELSE DatetimeMin,
           stop  |-> IF dates[2] # Sentinel THEN time_str2dt(dates[2], now)
                     ELSE DatetimeMax])

\* the velocity line read without comparing its domes
VelocityLine_NoDomes(line, domes) ==
  IF line.kind = "eof" THEN Raise("IndexError")
  ELSE IF line.kind = "B" THEN Ok(line.vel)
  ELSE Raise("AssertionError")

\* the velocity line: l = line.split(); assert l[0] == domes and len(l) == 7
VelocityLine(line, domes) ==
  IF line.kind = "eof" THEN Raise("IndexError")
  ELSE IF line.kind = "B" /\ line.domes = domes THEN Ok(line.vel)
  ELSE Raise("AssertionError")

\* read_next_record(line, fstream); a line that is not a position line does
\* not yield six floats from column 36 on (ValueError)
read_next_record(line, file, pos, now) ==
  IF line.kind # "A" THEN [ok |-> FALSE, exc |-> "ValueError", pos |-> pos]
  ELSE
    LET v == Validity(line.dates, now)
    IN IF ~ v.ok THEN [ok |-> FALSE, exc |-> v.exc, pos |-> pos]
       ELSE LET r  == ReadLine(file, pos)
                vl == VelocityLine(r.line, line.domes)
            IN IF ~ vl.ok THEN [ok |-> FALSE, exc |-> vl.exc, pos |-> r.pos]
               ELSE [ok |-> TRUE, exc |-> "", pos |-> r.pos,
                     dic |-> [domes |-> line.domes, id |-> line.id,
                              start |-> v.val.start, stop |-> v.val.stop,
                              x |-> line.pos[1], y |-> line.pos[2],
                              z |-> line.pos[3],
                              vx |-> vl.val[1], vy |-> vl.val[2],
                              vz |-> vl.val[3]]]

\* the position one year after the one asked for
extrapolate_NextYear(dtq, x0, vx) == x0 + TDiv(vx * (dtq + Scale), Scale)

extrapolate(dtq, x0, vx) == x0 + TDiv(vx * dtq, Scale)

\* line 146: if station: station = [ x.upper() for x in station ]
UpperAll(station) == [i \in 1..Len(station) |-> Upper(station[i])]

\* the request test with `and` for `or`
Requested_And(dic, station, domes) ==
  InList(dic.domes, domes) /\ InList(dic.id, station)

\* line 152
Requested(dic, station, domes) ==
  InList(dic.domes, domes) \/ InList(dic.id, station)

\* the validity test with the stop instant included
InValidity_Closed(dic, t) == DtLe(dic.start, t) /\ DtLe(t, dic.stop)

\* the start excluded as the stop is
InValidity_OpenStart(dic, t) == DtLt(dic.start, t) /\ DtLt(t, dic.stop)

\* line 153
InValidity(dic, t) == DtLe(dic.start, t) /\ DtLt(t, dic.stop)

\* lines 154-159
ResultEntry(dic, t, t0) ==
  LET dyr == FractionalYears(TimeDelta(t, t0))
  IN [station |-> dic.id, domes |-> dic.domes,
      x |-> extrapolate(dyr, dic.x, dic.vx),
      y |-> extrapolate(dyr, dic.y, dic.vy),
      z |-> extrapolate(dyr, dic.z, dic.vz)]

\* lines 152-159: the record's effect on `results`
Select(res, dic, station, domes, t, t0) ==
  IF Requested(dic, station, domes) /\ InValidity(dic, t)
  THEN Append(res, ResultEntry(dic, t, t0))
  ELSE res

\* lines 145-149: results = [], open, read_header, first readline
SscOpen ==
  /\ ssc_pc = "start"
  /\ LET h == read_header(ssc_file, 0)
     IN IF h.ok
        THEN LET r == ReadLine(ssc_file, h.pos)
             IN /\ ssc_pc' = "scan"
                /\ ssc_open' = TRUE
                /\ ssc_pos' = r.pos
                /\ ssc_line' = r.line
                /\ ssc_exc' = ""
        ELSE /\ ssc_pc' = "raised"
             /\ ssc_open' = FALSE
             /\ ssc_pos' = h.pos
             /\ ssc_line' = EOF
             /\ ssc_exc' = h.exc
  /\ results' = <<>>
  /\ UNCHANGED <<ssc_file, ssc_t0, ssc_t, ssc_station, ssc_domes, ssc_ret>>
  /\ UNCHANGED <<now_year, psd_vars, tool_vars, fn_vars>>

\* one turn of the while loop with the file left open when a record raises
SscRecord_NoClose ==
  /\ ssc_pc = "scan"
  /\ ssc_line.kind # "eof"
  /\ LET rec == read_next_record(ssc_line, ssc_file, ssc_pos, now_year)
     IN IF rec.ok
        THEN LET r == ReadLine(ssc_file, rec.pos)
             IN /\ results' = Select(results, rec.dic, UpperAll(ssc_station),
                                     ssc_domes, ssc_t, ssc_t0)
                /\ ssc_pos' = r.pos
                /\ ssc_line' = r.line
                /\ UNCHANGED <<ssc_pc, ssc_open, ssc_exc>>
        ELSE /\ ssc_pc' = "raised"
             /\ ssc_pos' = rec.pos
             /\ ssc_exc' = rec.exc
             /\ UNCHANGED <<results, ssc_line, ssc_open>>
  /\ UNCHANGED <<ssc_file, ssc_t0, ssc_t, ssc_station, ssc_domes, ssc_ret>>
  /\ UNCHANGED <<now_year, psd_vars, tool_vars, fn_vars>>

\* lines 150-160: one turn of the while loop
SscRecord ==
  /\ ssc_pc = "scan"
  /\ ssc_line.kind # "eof"
  /\ LET rec == read_next_record(ssc_line, ssc_file, ssc_pos, now_year)
     IN IF rec.ok
        THEN LET r == ReadLine(ssc_file, rec.pos)
             IN /\ results' = Select(results, rec.dic, UpperAll(ssc_station),
                                     ssc_domes, ssc_t, ssc_t0)
                /\ ssc_pos' = r.pos
                /\ ssc_line' = r.line
                /\ UNCHANGED <<ssc_pc, ssc_open, ssc_exc>>
        ELSE /\ ssc_pc' = "raised"
             /\ ssc_open' = FALSE
             /\ ssc_pos' = rec.pos
             /\ ssc_exc' = rec.exc
             /\ UNCHANGED <<results, ssc_line>>
  /\ UNCHANGED <<ssc_file, ssc_t0, ssc_t, ssc_station, ssc_domes, ssc_ret>>
  /\ UNCHANGED <<now_year, psd_vars, tool_vars, fn_vars>>

\* line 161: return results, leaving the with-block
SscReturn ==
  /\ ssc_pc = "scan"
  /\ ssc_line.kind = "eof"
  /\ ssc_pc' = "done"
  /\ ssc_open' = FALSE
  /\ ssc_ret' = <<results>>
  /\ UNCHANGED <<ssc_file, ssc_t0, ssc_t, ssc_station, ssc_domes, ssc_pos,
                 ssc_line, results, ssc_exc>>
  /\ UNCHANGED <<now_year, psd_vars, tool_vars, fn_vars>>

----------------------------------------------------------------------------
(* Python floats and the math module *)

FMul(a, b) == TDiv(a * b, Scale)
\* a / b; float division by zero raises
FDiv(a, b) == IF b = 0 THEN Raise("ZeroDivisionError") ELSE Ok(TDiv(a * Scale, b))

\* sum of x^n/n! from the term given on, for x >= 0
RECURSIVE ExpTerms(_, _, _)
ExpTerms(x, term, n) ==
  IF term = 0 THEN 0
  ELSE term + ExpTerms(x, TDiv(term * x, Scale * n), n + 1)

\* math.exp(x); a result past the largest float raises
MathExp(x) ==
  IF x > 709 * Scale THEN Raise("OverflowError")
  ELSE IF x >= 0 THEN Ok(ExpTerms(x, Scale, 1))
  ELSE Ok(TDiv(Scale * Scale, ExpTerms(-x, Scale, 1)))

\* sum of z^k/k over odd k from the power given on (z2 = z*z)
RECURSIVE LogTerms(_, _, _)
LogTerms(z2, pw, k) ==
  IF pw = 0 THEN 0
  ELSE TDiv(pw, k) + LogTerms(z2, FMul(pw, z2), k + 2)

\* math.log(y) = 2 atanh((y-1)/(y+1)); y <= 0 is a math domain error
MathLog(y) ==
  IF y <= 0 THEN Raise("ValueError")
  ELSE LET z == TDiv((y - Scale) * Scale, y + Scale)
       IN Ok(2 * LogTerms(FMul(z, z), z, 1))

----------------------------------------------------------------------------
(* parametric.py *)

\* a1*math.log(1e0+dtq/t1)
LogPart(dtq, a1, t1) ==
  LET q == FDiv(dtq, t1)
  IN IF ~ q.ok THEN q
     ELSE LET l == MathLog(Scale + q.val)
          IN IF ~ l.ok THEN l ELSE Ok(FMul(a1, l.val))

\* a1*math.exp(-te1), the decay itself and not what is left of it
ExpPart_Decay(dtq, a1, t1) ==
  LET q == FDiv(dtq, t1)
  IN IF ~ q.ok THEN q
     ELSE LET e == MathExp(-q.val)
          IN IF ~ e.ok THEN e ELSE Ok(FMul(a1, e.val))

\* a1*(1e0-math.exp(-te1)), te1 = dtq/t1
ExpPart(dtq, a1, t1) ==
  LET q == FDiv(dtq, t1)
  IN IF ~ q.ok THEN q
     ELSE LET e == MathExp(-q.val)
          IN IF ~ e.ok THEN e ELSE Ok(FMul(a1, Scale - e.val))

\* the sum of two parts, the left one evaluated first
Plus(l, r) == IF ~ l.ok THEN l ELSE IF ~ r.ok THEN r ELSE Ok(l.val + r.val)

md_pwl == Ok(0)
md_log(dtq, a1, t1) == LogPart(dtq, a1, t1)
md_exp(dtq, a1, t1) == ExpPart(dtq, a1, t1)
\* te2 = dtq/t2 is divided before the logarithm is taken
md_logexp(dtq, a1, t1, a2, t2) ==
  IF t2 = 0 THEN Raise("ZeroDivisionError")
  ELSE Plus(LogPart(dtq, a1, t1), ExpPart(dtq, a2, t2))
\* te1 and te2 are both divided before any exponential is taken
md_expexp(dtq, a1, t1, a2, t2) ==
  IF t1 = 0 \/ t2 = 0 THEN Raise("ZeroDivisionError")
  ELSE Plus(ExpPart(dtq, a1, t1), ExpPart(dtq, a2, t2))

\* A model tag: an int, or a string alias
IntTag(i) == [isint |-> TRUE, i |-> i, s |-> ""]
StrTag(s) == [isint |-> FALSE, i |-> 0, s |-> s]

\* int_model_dict
IntModelNames == <<"pwl", "log", "exp", "logexp", "expexp">>
int_model_dict(i) ==
  IF i \in 0 .. Len(IntModelNames) - 1 THEN Ok(IntModelNames[i + 1])
  ELSE Raise("KeyError")

\* model_dict[name](*args): args = (dtq, a1, t1[, a2, t2]); a call with the
\* wrong number of arguments is a TypeError
CallModel(name, args) ==
  IF name = "log"
  THEN IF Len(args) = 3 THEN md_log(args[1], args[2], args[3])
       ELSE Raise("TypeError")
  ELSE IF name = "exp"
  THEN IF Len(args) = 3 THEN md_exp(args[1], args[2], args[3])
       ELSE Raise("TypeError")
  ELSE IF name = "logexp"
  THEN IF Len(args) = 5
       THEN md_logexp(args[1], args[2], args[3], args[4], args[5])
       ELSE Raise("TypeError")
  ELSE IF name = "expexp"
  THEN IF Len(args) = 5
       THEN md_expexp(args[1], args[2], args[3], args[4], args[5])
       ELSE Raise("TypeError")
  ELSE IF name = "pwl"
  THEN IF Len(args) = 0 THEN md_pwl ELSE Raise("TypeError")
  ELSE Raise("KeyError")

\* lines 186-189, the body of the try for an int model
TryInt(i, args) ==
  IF i > 0
  THEN LET n == int_model_dict(i)
       IN IF ~ n.ok THEN n ELSE CallModel(n.val, args)
  ELSE LET n == int_model_dict(i)
       IN IF ~ n.ok THEN n ELSE CallModel(n.val, <<>>)

\* lines 191-193, the except branch; model_dict has string keys only
ExceptBranch(model, args) ==
  IF model.isint THEN Raise("KeyError")
  ELSE IF model.s # "pwl" THEN CallModel(model.s, args)
  ELSE CallModel(model.s, <<>>)

\* parametric(model, *args): `model + 1` raises TypeError for a string; the
\* bare except catches whatever the try raised and runs the except branch
parametric(model, args) ==
  LET try == IF model.isint THEN TryInt(model.i, args) ELSE Raise("TypeError")
  IN IF try.ok THEN try ELSE ExceptBranch(model, args)

----------------------------------------------------------------------------
(* compute_psd.py *)

\* ' '*4 and ' '*9
Blank4 == <<" ", " ", " ", " ">>
Blank9 == "         "

\* Python truth of an argument that is None, '' or a non-empty string; None
\* and '' are both held as the empty string (<<>> for a station name, which
\* is a tuple of characters)
GivenStation(station) == Len(station) > 0
GivenDomes(domes) == domes # ""

\* get_psd_model without the assert on the component letter
get_psd_model_NoLetter(line, cmp) ==
  IF line.kind # "psd" THEN Raise("IndexError")
  ELSE IF ~ (line.model >= 0 /\ line.model < NumModels)
  THEN Raise("AssertionError")
  ELSE Ok([model |-> line.model, params |-> line.params])

\* get_psd_model without the assert on the model digit
get_psd_model_NoRange(line, cmp) ==
  IF line.kind # "psd" THEN Raise("IndexError")
  ELSE IF line.cmp # cmp THEN Raise("AssertionError")
  ELSE Ok([model |-> line.model, params |-> line.params])

\* get_psd_model(line, cmp): line[32] of '' or of a short line is an
\* IndexError; then the two asserts
get_psd_model(line, cmp) ==
  IF line.kind # "psd" THEN Raise("IndexError")
  ELSE IF line.cmp # cmp THEN Raise("AssertionError")
  ELSE IF ~ (line.model >= 0 /\ line.model < NumModels)
  THEN Raise("AssertionError")
  ELSE Ok([model |-> line.model, params |-> line.params])

\* get_next_psd(fin, line): the East line is given, two more are read; a
\* first line with no epoch text in columns 19-31 fails in time_str2dt
get_next_psd(file, pos, line, now) ==
  IF line.kind # "psd" THEN [ok |-> FALSE, exc |-> "IndexError", pos |-> pos]
  ELSE IF ~ line.dated THEN [ok |-> FALSE, exc |-> "ValueError", pos |-> pos]
  ELSE
    LET e == get_psd_model(line, "E")
    IN IF ~ e.ok THEN [ok |-> FALSE, exc |-> e.exc, pos |-> pos]
       ELSE
         LET r1 == ReadLine(file, pos)
             n  == get_psd_model(r1.line, "N")
         IN IF ~ n.ok THEN [ok |-> FALSE, exc |-> n.exc, pos |-> r1.pos]
            ELSE
              LET r2 == ReadLine(file, r1.pos)
                  u  == get_psd_model(r2.line, "U")
              IN IF ~ u.ok THEN [ok |-> FALSE, exc |-> u.exc, pos |-> r2.pos]
                 ELSE [ok |-> TRUE, exc |-> "", pos |-> r2.pos,
                       sta |-> line.sta, dms |-> line.domes,
                       et |-> time_str2dt(line.epoch, now),
                       me |-> e.val.model, pe |-> e.val.params,
                       mn |-> n.val.model, pn |-> n.val.params,
                       mu |-> u.val.model, pu |-> u.val.params]

\* line 152, with station already upper-cased by line 147
Matches(station, domes, sta, dms) ==
  \/ ~ GivenStation(station) /\ domes = dms
  \/ ~ GivenDomes(domes) /\ Upper(station) = sta

\* lines 153-154
PsdYears(t, et) == FractionalYears(TimeDelta(t, et))

\* the totals assigned, not added to
Accumulate_Overwrite(a, ev, t) ==
  LET dyr == FractionalYears(TimeDelta(t, ev.et))
      e == parametric(IntTag(ev.me), <<dyr>> \o ev.pe)
      n == parametric(IntTag(ev.mn), <<dyr>> \o ev.pn)
      u == parametric(IntTag(ev.mu), <<dyr>> \o ev.pu)
  IN IF ~ e.ok THEN e
     ELSE IF ~ n.ok THEN n
     ELSE IF ~ u.ok THEN u
     ELSE Ok([de |-> e.val, dn |-> n.val, du |-> u.val,
              num_of_psd |-> a.num_of_psd + 1,
              sta_def |-> ev.sta, dms_def |-> ev.dms])

\* sta_def and dms_def left as the caller gave them
Accumulate_KeepIds(a, ev, t) ==
  LET dyr == FractionalYears(TimeDelta(t, ev.et))
      e == parametric(IntTag(ev.me), <<dyr>> \o ev.pe)
      n == parametric(IntTag(ev.mn), <<dyr>> \o ev.pn)
      u == parametric(IntTag(ev.mu), <<dyr>> \o ev.pu)
  IN IF ~ e.ok THEN e
     ELSE IF ~ n.ok THEN n
     ELSE IF ~ u.ok THEN u
     ELSE Ok([de |-> a.de + e.val, dn |-> a.dn + n.val, du |-> a.du + u.val,
              num_of_psd |-> a.num_of_psd + 1,
              sta_def |-> a.sta_def, dms_def |-> a.dms_def])

\* an event dated after t passed over
Accumulate_PastOnly(a, ev, t) ==
  LET dyr == PsdYears(t, ev.et)
      e == parametric(IntTag(ev.me), <<dyr>> \o ev.pe)
      n == parametric(IntTag(ev.mn), <<dyr>> \o ev.pn)
      u == parametric(IntTag(ev.mu), <<dyr>> \o ev.pu)
  IN IF dyr < 0 THEN Ok(a)
     ELSE IF ~ e.ok THEN e
     ELSE IF ~ n.ok THEN n
     ELSE IF ~ u.ok THEN u
     ELSE Ok([de |-> a.de + e.val, dn |-> a.dn + n.val, du |-> a.du + u.val,
              num_of_psd |-> a.num_of_psd + 1,
              sta_def |-> ev.sta, dms_def |-> ev.dms])

\* lines 155-161: the three evaluations in order, then the locals
Accumulate(a, ev, t) ==
  LET dyr == PsdYears(t, ev.et)
      e == parametric(IntTag(ev.me), <<dyr>> \o ev.pe)
      n == parametric(IntTag(ev.mn), <<dyr>> \o ev.pn)
      u == parametric(IntTag(ev.mu), <<dyr>> \o ev.pu)
  IN IF ~ e.ok THEN e
     ELSE IF ~ n.ok THEN n
     ELSE IF ~ u.ok THEN u
     ELSE Ok([de |-> a.de + e.val, dn |-> a.dn + n.val, du |-> a.du + u.val,
              num_of_psd |-> a.num_of_psd + 1,
              sta_def |-> ev.sta, dms_def |-> ev.dms])

\* compute_psd entered without the assert of line 146
PsdOpen_NoAssert ==
  /\ psd_pc = "start"
  /\ acc' = [de |-> 0, dn |-> 0, du |-> 0, num_of_psd |-> 0,
             sta_def |-> IF ~ GivenStation(psd_station) THEN Blank4 ELSE psd_station,
             dms_def |-> IF ~ GivenDomes(psd_domes) THEN Blank9 ELSE psd_domes]
  /\ LET r == ReadLine(psd_file, 0)
     IN /\ psd_pc' = "scan"
        /\ psd_open' = TRUE
        /\ psd_pos' = r.pos
        /\ psd_line' = r.line
        /\ psd_exc' = ""
  /\ UNCHANGED <<psd_file, psd_t, psd_station, psd_domes, psd_ret>>
  /\ UNCHANGED <<now_year, ssc_vars, tool_vars, fn_vars>>

\* lines 141-149: the locals, the assert, open, first readline
PsdOpen ==
  /\ psd_pc = "start"
  /\ acc' = [de |-> 0, dn |-> 0, du |-> 0, num_of_psd |-> 0,
             sta_def |-> IF ~ GivenStation(psd_station) THEN Blank4 ELSE psd_station,
             dms_def |-> IF ~ GivenDomes(psd_domes) THEN Blank9 ELSE psd_domes]
  /\ IF ~ (~ GivenStation(psd_station) \/ ~ GivenDomes(psd_domes))
     THEN /\ psd_pc' = "raised"
          /\ psd_exc' = "AssertionError"
          /\ UNCHANGED <<psd_open, psd_pos, psd_line>>
     ELSE LET r == ReadLine(psd_file, 0)
          IN /\ psd_pc' = "scan"
             /\ psd_open' = TRUE
             /\ psd_pos' = r.pos
             /\ psd_line' = r.line
             /\ psd_exc' = ""
  /\ UNCHANGED <<psd_file, psd_t, psd_station, psd_domes, psd_ret>>
  /\ UNCHANGED <<now_year, ssc_vars, tool_vars, fn_vars>>

\* lines 150-162: one turn of the while loop
PsdEvent ==
  /\ psd_pc = "scan"
  /\ psd_line.kind # "eof"
  /\ LET ev == get_next_psd(psd_file, psd_pos, psd_line, now_year)
         a  == IF ev.ok /\ Matches(psd_station, psd_domes, ev.sta, ev.dms)
               THEN Accumulate(acc, ev, psd_t)
               ELSE Ok(acc)
     IN IF ev.ok /\ a.ok
        THEN LET r == ReadLine(psd_file, ev.pos)
             IN /\ acc' = a.val
                /\ psd_pos' = r.pos
                /\ psd_line' = r.line
                /\ UNCHANGED <<psd_pc, psd_open, psd_exc>>
        ELSE /\ psd_pc' = "raised"
             /\ psd_open' = FALSE
             /\ psd_pos' = ev.pos
             /\ psd_exc' = IF ev.ok THEN a.exc ELSE ev.exc
             /\ UNCHANGED <<acc, psd_line>>
  /\ UNCHANGED <<psd_file, psd_t, psd_station, psd_domes, psd_ret>>
  /\ UNCHANGED <<now_year, ssc_vars, tool_vars, fn_vars>>

\* line 164: return sta_def, dms_def, de, dn, du, leaving the with-block
PsdReturn ==
  /\ psd_pc = "scan"
  /\ psd_line.kind = "eof"
  /\ psd_pc' = "done"
  /\ psd_open' = FALSE
  /\ psd_ret' = << [sta |-> acc.sta_def, dms |-> acc.dms_def,
                    de |-> acc.de, dn |-> acc.dn, du |-> acc.du] >>
  /\ UNCHANGED <<psd_file, psd_t, psd_station, psd_domes, psd_pos, psd_line,
                 acc, psd_exc>>
  /\ UNCHANGED <<now_year, ssc_vars, tool_vars, fn_vars>>

----------------------------------------------------------------------------
(* The inputs of the model: files, arguments, the clock *)

RECURSIVE Flatten(_)
Flatten(groups) ==
  IF Len(groups) = 0 THEN <<>> ELSE Head(groups) \o Flatten(Tail(groups))

\* all sequences of at most n elements of S
SeqsUpTo(S, n) == UNION { [1..k -> S] : k \in 0..n }

NowYears == {2017}

\* ---- SSC files
GRAS == <<"G", "R", "A", "S">>
ANKR == <<"A", "N", "K", "R">>
gras == <<"g", "r", "a", "s">>
SscDomes == {"10002M006", "20805M002"}
SscIds == {GRAS, ANKR}

\* validity fields "03:113:00000" and "04:295:43200"
EpochA == [yy |-> 3, doy |-> 113, sec |-> 0]
EpochB == [yy |-> 4, doy |-> 295, sec |-> 43200]
SscDates == {<<>>, <<EpochA, EpochB>>, <<EpochB, Sentinel>>}

\* position (m) and velocity (m/y) fields, as fixed-point floats
SscCoords == {[pos |-> <<458169, 55611, 438936>>, vel |-> <<10, -5, 20>>]}

HeaderLine(frame, year) ==
  [kind |-> "hdr",
   l |-> <<Word(frame), Word("STATION"), Word("POSITIONS"), Word("AT"),
           Word("EPOCH"), year, Word("AND"), Word("VELOCITIES")>>]
TextLine == [kind |-> "txt"]
PositionLine(domes, id, c, dates) ==
  [kind |-> "A", domes |-> domes, id |-> id, pos |-> c.pos, dates |-> dates]
VelocityLineOf(domes, c) == [kind |-> "B", domes |-> domes, vel |-> c.vel]

SscPreamble ==
  <<HeaderLine("ITRF2014", Num("2010.0", 2010 * Scale))>>
    \o [i \in 1..HeaderSkip |-> TextLine]

\* a station record: its position line and the velocity line after it, whose
\* domes field may differ
SscRecords ==
  { <<PositionLine(d, i, c, dt), VelocityLineOf(vd, c)>> :
      d \in SscDomes, i \in SscIds, c \in SscCoords, dt \in SscDates,
      vd \in SscDomes }

SscFiles ==
  { SscPreamble \o Flatten(g) : g \in SeqsUpTo(SscRecords, MaxRecords) }

\* query epochs: inside [EpochA, EpochB), and EpochB itself
SscQueryTimes == {<<OrdJan1(2004), 0, 0>>, time_str2dt(EpochB, 2017)}
\* reference epochs t0: the header's 2010.0, and the first of the query epochs
SscRefEpochs == {<<OrdJan1(2010), 0, 0>>, <<OrdJan1(2004), 0, 0>>}

InitSscIdle ==
  /\ ssc_file = <<>>
  /\ ssc_t0 = DatetimeMin
  /\ ssc_t = DatetimeMin
  /\ ssc_station = <<>>
  /\ ssc_domes = <<>>
  /\ ssc_pc = "idle"
  /\ ssc_open = FALSE
  /\ ssc_pos = 0
  /\ ssc_line = EOF
  /\ results = <<>>
  /\ ssc_ret = <<>>
  /\ ssc_exc = ""

InitPsdIdle ==
  /\ psd_file = <<>>
  /\ psd_t = DatetimeMin
  /\ psd_station = <<>>
  /\ psd_domes = ""
  /\ psd_pc = "idle"
  /\ psd_open = FALSE
  /\ psd_pos = 0
  /\ psd_line = EOF
  /\ acc = [de |-> 0, dn |-> 0, du |-> 0, num_of_psd |-> 0,
            sta_def |-> Blank4, dms_def |-> Blank9]
  /\ psd_ret = <<>>
  /\ psd_exc = ""

InitToolIdle ==
  /\ tool_args = <<>>
  /\ tool_pc = "idle"
  /\ tool_out = <<>>
  /\ tool_exc = ""

InitFnIdle ==
  /\ fn_call = [fn |-> "none"]
  /\ fn_ret = <<>>

\* a call of itrf_extrapolate about to start
InitSSC ==
  /\ now_year \in NowYears
  /\ ssc_file \in SscFiles
  /\ ssc_t0 \in SscRefEpochs
  /\ ssc_t \in SscQueryTimes
  /\ ssc_station \in {<<>>, <<gras>>}
  /\ ssc_domes \in {<<>>, <<"10002M006">>}
  /\ ssc_pc = "start"
  /\ ssc_open = FALSE
  /\ ssc_pos = 0
  /\ ssc_line = EOF
  /\ results = <<>>
  /\ ssc_ret = <<>>
  /\ ssc_exc = ""
  /\ InitPsdIdle
  /\ InitToolIdle
  /\ InitFnIdle

NextSSC == SscOpen \/ SscRecord \/ SscReturn

SpecSSC == InitSSC /\ [][NextSSC]_vars

\* ---- SSC files with any first line
GoodHeader == HeaderLine("ITRF2014", Num("2010.0", 2010 * Scale))
\* first lines: two well-formed headers; a keyword replaced, one position
\* at a time; a token missing, a token too many; a reference epoch that is
\* text, not integral, or not a year of a datetime; a line of text
HeaderLines ==
  { GoodHeader, HeaderLine("ITRF2008", Num("2005.0", 2005 * Scale)) }
  \cup { [GoodHeader EXCEPT !.l[i] = Word("EPOCHS")] : i \in {2, 3, 4, 5, 7, 8} }
  \cup { [GoodHeader EXCEPT !.l = SubSeq(GoodHeader.l, 1, 7)],
         [GoodHeader EXCEPT !.l = Append(GoodHeader.l, Word("(M)"))] }
  \cup { HeaderLine("ITRF2014", Word("XXXX")),
         HeaderLine("ITRF2014", Num("2010.5", 2010 * Scale + Scale \div 2)),
         HeaderLine("ITRF2014", Num("0.0", 0)),
         HeaderLine("ITRF2014", Num("10000.0", 10000 * Scale)) }
  \cup { TextLine }

\* the records after the descriptive lines: well formed, always valid
HeaderRecords ==
  { <<PositionLine(d, GRAS, c, <<>>), VelocityLineOf(d, c)>> :
      d \in SscDomes, c \in SscCoords }

\* a first line, then HeaderSkip descriptive lines or one fewer, then records;
\* and the empty file
HeaderFiles ==
  { <<h>> \o [i \in 1..n |-> TextLine] \o Flatten(g) :
      h \in HeaderLines, n \in {HeaderSkip, HeaderSkip - 1},
      g \in SeqsUpTo(HeaderRecords, MaxRecords) }
  \cup { <<>> }

\* a call of itrf_extrapolate on such a file about to start
InitHeader ==
  /\ now_year \in NowYears
  /\ ssc_file \in HeaderFiles
  /\ ssc_t0 = <<OrdJan1(2010), 0, 0>>
  /\ ssc_t \in SscQueryTimes
  /\ ssc_station \in {<<>>, <<gras>>}
  /\ ssc_domes \in {<<>>, <<"10002M006">>}
  /\ ssc_pc = "start"
  /\ ssc_open = FALSE
  /\ ssc_pos = 0
  /\ ssc_line = EOF
  /\ results = <<>>
  /\ ssc_ret = <<>>
  /\ ssc_exc = ""
  /\ InitPsdIdle
  /\ InitToolIdle
  /\ InitFnIdle

SpecHeader == InitHeader /\ [][NextSSC]_vars

\* ---- PSD files
ANTC == <<"A", "N", "T", "C">>
COCO == <<"C", "O", "C", "O">>
antc == <<"a", "n", "t", "c">>
\* (4-char id, domes) of the East lines
PsdSites == { <<ANTC, "41713S001">>, <<ANTC, "41713S002">>,
              <<COCO, "41713S001">> }

\* earthquake epochs "10:058:23656" and "12:001:00000"
QuakeA == [yy |-> 10, doy |-> 58, sec |-> 23656]
QuakeB == [yy |-> 12, doy |-> 1, sec |-> 0]

\* a component's model digit and float parameters (mm, years)
Pwl == [model |-> 0, params |-> <<>>]
Log(a1, t1) == [model |-> 1, params |-> <<a1, t1>>]
Exp(a1, t1) == [model |-> 2, params |-> <<a1, t1>>]
LogExp(a1, t1, a2, t2) == [model |-> 3, params |-> <<a1, t1, a2, t2>>]
ExpExp(a1, t1, a2, t2) == [model |-> 4, params |-> <<a1, t1, a2, t2>>]

\* East/North/Up models of well-formed events
GoodTriples ==
  { <<Log(10000, 1000), Exp(-5000, 1000), Pwl>>,
    <<LogExp(2000, 500, -7000, 2000), ExpExp(3000, 500, 1000, 2000),
      Exp(4000, 500)>> }
\* a model digit outside 0..4
TagTriples == { <<Exp(4000, 500), [model |-> 7, params |-> <<3000, 500>>], Pwl>> }
\* parameter counts that do not fit the model
ArityTriples ==
  { <<Log(10000, 1000), [model |-> 2, params |-> <<4000>>],
      [model |-> 3, params |-> <<2000, 500>>]>> }

\* the lines of one event: letters[i] is the component letter written on the
\* i-th line; only the first line carries id, domes and epoch
PsdLine(site, epoch, letter, m, first) ==
  [kind |-> "psd", sta |-> IF first THEN site[1] ELSE Blank4,
   domes |-> IF first THEN site[2] ELSE Blank9,
   dated |-> first, epoch |-> epoch,
   cmp |-> letter, model |-> m.model, params |-> m.params]
EventLines(site, epoch, triple, letters) ==
  [i \in 1..Len(letters) |-> PsdLine(site, epoch, letters[i], triple[i], i = 1)]

ENU == <<"E", "N", "U">>
\* out of order, and cut short after the North line
BadLetters == { <<"E", "U", "N">>, <<"E", "N">> }

PsdEvents ==
  { EventLines(s, q, m, ENU) :
      s \in PsdSites, q \in {QuakeA, QuakeB}, m \in GoodTriples }
  \cup { EventLines(s, QuakeA, m, ENU) :
      s \in PsdSites, m \in TagTriples \cup ArityTriples }
  \cup { EventLines(s, QuakeA, m, l) :
      s \in PsdSites, m \in {<<Log(10000, 1000), Exp(-5000, 1000), Pwl>>},
      l \in BadLetters }

PsdFiles == { Flatten(g) : g \in SeqsUpTo(PsdEvents, MaxEvents) }

\* query epochs: the instant of QuakeA, and 365.25 days after it
PsdQueryTimes ==
  { time_str2dt(QuakeA, 2017),
    time_str2dt([yy |-> 11, doy |-> 58, sec |-> 45256], 2017) }

\* (station, domes) as the caller gives them: one of the two, both, neither
PsdRequests ==
  { <<antc, "">>, <<<<>>, "41713S001">>, <<antc, "41713S001">>, <<<<>>, "">> }

\* a call of compute_psd about to start
InitPSD ==
  /\ now_year \in NowYears
  /\ psd_file \in PsdFiles
  /\ psd_t \in PsdQueryTimes
  /\ \E r \in PsdRequests : psd_station = r[1] /\ psd_domes = r[2]
  /\ psd_pc = "start"
  /\ psd_open = FALSE
  /\ psd_pos = 0
  /\ psd_line = EOF
  /\ acc = [de |-> 0, dn |-> 0, du |-> 0, num_of_psd |-> 0,
            sta_def |-> Blank4, dms_def |-> Blank9]
  /\ psd_ret = <<>>
  /\ psd_exc = ""
  /\ InitSscIdle
  /\ InitToolIdle
  /\ InitFnIdle

NextPSD == PsdOpen \/ PsdEvent \/ PsdReturn

SpecPSD == InitPSD /\ [][NextPSD]_vars

----------------------------------------------------------------------------
(* What the SSC claims speak about: the station records of a file, read    *)
(* off its layout (the header line, HeaderSkip lines, then two lines per   *)
(* record) and not off the scan.                                           *)

FirstRecordLine == 1 + HeaderSkip + 1
NumSscRecords(file) ==
  IF Len(file) < FirstRecordLine THEN 0
  ELSE (Len(file) - FirstRecordLine + 2) \div 2
PosLineOf(file, k) == file[FirstRecordLine + 2 * (k - 1)]
VelLineOf(file, k) ==
  IF FirstRecordLine + 2 * (k - 1) + 1 <= Len(file)
  THEN file[FirstRecordLine + 2 * (k - 1) + 1] ELSE EOF

\* the k-th record's two lines agree on the domes code
DomesAgree(file, k) ==
  /\ VelLineOf(file, k).kind = "B"
  /\ VelLineOf(file, k).domes = PosLineOf(file, k).domes
AllDomesAgree(file) == \A k \in 1..NumSscRecords(file) : DomesAgree(file, k)

\* the validity interval written on the k-th record
StartOf(file, k) == Validity(PosLineOf(file, k).dates, now_year).val.start
StopOf(file, k) == Validity(PosLineOf(file, k).dates, now_year).val.stop
ContainsT(file, k, t) == DtLe(StartOf(file, k), t) /\ DtLt(t, StopOf(file, k))

\* the k-th record is asked for: by its id (requests compare upper-cased)
\* or by its domes
AskedById(file, k) ==
  \E i \in 1..Len(ssc_station) : Upper(ssc_station[i]) = PosLineOf(file, k).id
AskedByDomes(file, k) ==
  \E i \in 1..Len(ssc_domes) : ssc_domes[i] = PosLineOf(file, k).domes
Wanted(file, k) ==
  (AskedById(file, k) \/ AskedByDomes(file, k)) /\ ContainsT(file, k, ssc_t)

\* the entries of the wanted records among the first n, in catalog order
RECURSIVE WantedEntries(_, _)
WantedEntries(file, n) ==
  IF n = 0 THEN <<>>
  ELSE LET before == WantedEntries(file, n - 1)
       IN IF Wanted(file, n)
          THEN Append(before,
                 [station |-> PosLineOf(file, n).id,
                  domes |-> PosLineOf(file, n).domes])
          ELSE before

\* the station and domes of each entry of a result list
Who(res) == [i \in 1..Len(res) |-> [station |-> res[i].station,
                                    domes |-> res[i].domes]]

\* C1: itrf_extrapolate returns one entry for exactly the records that are
\* asked for (id among the requested ids, compared upper-cased, or domes
\* among the requested domes) and whose validity interval contains t, in
\* catalog order; a request that no record answers raises nothing: a file
\* whose records are well formed is always scanned to its end.
C1_ExactSelection ==
  /\ ssc_pc = "done" =>
       /\ Len(ssc_ret) = 1
       /\ Who(ssc_ret[1]) = WantedEntries(ssc_file, NumSscRecords(ssc_file))
  /\ AllDomesAgree(ssc_file) => ssc_pc # "raised"

\* C1's case: a query that returned one record, skipped another that is
\* asked for by id but not valid at t, and asked for a domes no record has
C1_Witness ==
  /\ ssc_pc = "done"
  /\ Len(ssc_ret[1]) = 1
  /\ \E k \in 1..NumSscRecords(ssc_file) :
        AskedById(ssc_file, k) /\ ~ ContainsT(ssc_file, k, ssc_t)
  /\ Len(ssc_domes) > 0
  /\ \A k \in 1..NumSscRecords(ssc_file) : ~ AskedByDomes(ssc_file, k)

\* records k and m are of one station
SameStation(file, k, m) ==
  /\ PosLineOf(file, k).domes = PosLineOf(file, m).domes
  /\ PosLineOf(file, k).id = PosLineOf(file, m).id
\* their validity intervals do not meet
Disjoint(file, k, m) ==
  \/ DtLe(StopOf(file, k), StartOf(file, m))
  \/ DtLe(StopOf(file, m), StartOf(file, k))

C10_DomesMismatchFatal ==
  /\ ~ AllDomesAgree(ssc_file) => ssc_pc # "done"
  /\ ssc_pc = "raised" =>
       /\ ssc_ret = <<>>
       /\ ssc_exc = "AssertionError"
       /\ ~ DomesAgree(ssc_file, (ssc_pos - FirstRecordLine + 1) \div 2)
  /\ (ssc_pc = "scan" /\ ssc_line.kind # "eof") =>
       (ssc_pos - FirstRecordLine) % 2 = 0

\* C10's case: the scan raised after a matching record had been collected
C10_Witness ==
  /\ ssc_pc = "raised"
  /\ Len(results) > 0
  /\ ssc_ret = <<>>

----------------------------------------------------------------------------
(* What the PSD claims speak about: the events of a file, read off its     *)
(* layout (three lines per event) and not off the scan.                    *)

NumPsdGroups(file) == (Len(file) + 2) \div 3
GroupLine(file, k, c) ==
  IF 3 * (k - 1) + c <= Len(file) THEN file[3 * (k - 1) + c] ELSE EOF

\* the k-th group of three lines is lettered E, N, U
ProperLetters(file, k) ==
  \A c \in 1..3 :
    GroupLine(file, k, c).kind = "psd" /\ GroupLine(file, k, c).cmp = ENU[c]
\* the k-th group's model digits are model tags
ProperTags(file, k) ==
  \A c \in 1..3 :
    GroupLine(file, k, c).kind = "psd" => GroupLine(file, k, c).model \in 0..4
\* the number of parameters the model of a component line needs
ParamsNeeded(m) == IF m = 0 THEN 0 ELSE IF m \in {1, 2} THEN 2 ELSE 4
ProperArity(file, k) ==
  \A c \in 1..3 :
    (GroupLine(file, k, c).kind = "psd" /\ GroupLine(file, k, c).model \in 1..4)
      => Len(GroupLine(file, k, c).params) =
           ParamsNeeded(GroupLine(file, k, c).model)

\* the request names exactly one identifier, and the k-th event carries it
OnlyStation == Len(psd_station) > 0 /\ psd_domes = ""
OnlyDomes == Len(psd_station) = 0 /\ psd_domes # ""
EventAsked(file, k) ==
  \/ OnlyStation /\ GroupLine(file, k, 1).sta = Upper(psd_station)
  \/ OnlyDomes /\ GroupLine(file, k, 1).domes = psd_domes
AskedEvents(file) == { k \in 1..NumPsdGroups(file) : EventAsked(file, k) }

\* years from the k-th event to the query epoch
YearsSince(file, k) ==
  FractionalYears(TimeDelta(psd_t,
                            time_str2dt(GroupLine(file, k, 1).epoch, now_year)))
\* the k-th event's model of component c (1 East, 2 North, 3 Up) at the query
EventValue(file, k, c) ==
  parametric(IntTag(GroupLine(file, k, c).model),
             <<YearsSince(file, k)>> \o GroupLine(file, k, c).params)

\* sum over the asked events among the first n of their component c
RECURSIVE SumOfEvents(_, _, _)
SumOfEvents(file, n, c) ==
  IF n = 0 THEN 0
  ELSE SumOfEvents(file, n - 1, c)
       + (IF EventAsked(file, n) THEN EventValue(file, n, c).val ELSE 0)

\* C3: the (de, dn, du) that compute_psd returns is, component by component,
\* the sum over the events that match the station of that event's model
\* evaluated at the years from the event to the query epoch; an event that
\* does not match adds nothing.
C3_Superposition ==
  psd_pc = "done" =>
    /\ psd_ret[1].de = SumOfEvents(psd_file, NumPsdGroups(psd_file), 1)
    /\ psd_ret[1].dn = SumOfEvents(psd_file, NumPsdGroups(psd_file), 2)
    /\ psd_ret[1].du = SumOfEvents(psd_file, NumPsdGroups(psd_file), 3)

\* C3's case: two matching events, each with a non-zero East value
C3_Witness ==
  /\ psd_pc = "done"
  /\ AskedEvents(psd_file) = {1, 2}
  /\ EventValue(psd_file, 1, 1).val # 0
  /\ EventValue(psd_file, 2, 1).val # 0
  /\ psd_ret[1].de = EventValue(psd_file, 1, 1).val
                     + EventValue(psd_file, 2, 1).val

\* C4: with no matching event compute_psd returns (0, 0, 0) and the
\* identifier the caller gave as given (blanks for the one not given); with
\* a matching event it returns the id and domes written on the last
\* matching event's East line.
C4_Identifiers ==
  psd_pc = "done" =>
    IF AskedEvents(psd_file) = {}
    THEN psd_ret[1] =
           [sta |-> IF Len(psd_station) > 0 THEN psd_station ELSE Blank4,
            dms |-> IF psd_domes # "" THEN psd_domes ELSE Blank9,
            de |-> 0, dn |-> 0, du |-> 0]
    ELSE LET last == CHOOSE k \in AskedEvents(psd_file) :
                        \A m \in AskedEvents(psd_file) : m <= k
         IN /\ psd_ret[1].sta = GroupLine(psd_file, last, 1).sta
            /\ psd_ret[1].dms = GroupLine(psd_file, last, 1).domes

\* C4's case: a scan of a file with events, none of them of the station
\* asked for in lower case
C4_Witness ==
  /\ psd_pc = "done"
  /\ Len(psd_file) > 0
  /\ AskedEvents(psd_file) = {}
  /\ psd_station = antc
  /\ psd_ret[1].sta = antc

\* C5: an event matches by the one identifier given (the id, or the domes;
\* the event's other field is not looked at), and a call that gives both is
\* rejected (AssertionError) before a line is read and returns nothing.
C5_OneIdentifier ==
  /\ (Len(psd_station) > 0 /\ psd_domes # "") =>
       /\ psd_pc \in {"start", "raised"}
       /\ psd_pos = 0 /\ ~ psd_open /\ psd_ret = <<>>
       /\ psd_pc = "raised" => psd_exc = "AssertionError"
  /\ psd_pc = "done" =>
       acc.num_of_psd = Cardinality(AskedEvents(psd_file))

\* C5's case: a call with both identifiers has been rejected
C5_Witness ==
  /\ psd_pc = "raised"
  /\ Len(psd_station) > 0 /\ psd_domes # ""
  /\ Len(psd_file) > 0
  /\ psd_pos = 0

\* C6: every event is three lines lettered E, N, U; a group of three lines
\* lettered otherwise, or cut short, makes get_next_psd raise, so a scan
\* never returns from a file that holds one.
C6_TripletLetters ==
  /\ (\E k \in 1..NumPsdGroups(psd_file) : ~ ProperLetters(psd_file, k))
       => psd_pc # "done"
  /\ (psd_pc = "scan" /\ psd_line.kind # "eof") => (psd_pos - 1) % 3 = 0
  /\ psd_pc = "raised" => psd_ret = <<>>

\* C6's case: the scan raised on a line that does not carry the letter due
C6_Witness ==
  /\ psd_pc = "raised"
  /\ psd_pos > 0
  /\ psd_file[psd_pos].cmp # ENU[((psd_pos - 1) % 3) + 1]

\* C7: a model tag outside 0..4 never yields a number: parametric raises for
\* it, and a scan of a file with such a tag on a component line raises and
\* returns nothing, whatever it had accumulated.
C7_UnknownTag ==
  /\ \A i \in 1..Len(psd_file) :
       psd_file[i].model \notin 0..4 =>
         ~ parametric(IntTag(psd_file[i].model),
                      <<PsdYears(psd_t, time_str2dt(QuakeA, now_year))>>
                        \o psd_file[i].params).ok
  /\ (\E k \in 1..NumPsdGroups(psd_file) : ~ ProperTags(psd_file, k))
       => psd_pc # "done"
  /\ psd_pc = "raised" => psd_ret = <<>>

\* C7's case: the scan raised on a line with tag 7 after an event had been
\* added to the totals
C7_Witness ==
  /\ psd_pc = "raised"
  /\ psd_pos > 0
  /\ psd_file[psd_pos].model = 7
  /\ acc.num_of_psd = 1
  /\ acc.de # 0

\* C8 as stated: a component whose parameter count does not fit its model is
\* rejected when the event is read, so a scan never returns from a file that
\* holds one
C8_RejectedWhenRead ==
  (\E k \in 1..NumPsdGroups(psd_file) : ~ ProperArity(psd_file, k))
    => psd_pc # "done"

\* the k-th event is asked for and well formed, and one of its logarithms
\* (LOG, LOGEXP with t1 > 0) has a non-positive argument at the query epoch
LogDomainAt(file, k) ==
  /\ ProperLetters(file, k) /\ ProperTags(file, k) /\ ProperArity(file, k)
  /\ EventAsked(file, k)
  /\ \E c \in 1..3 :
       LET l == GroupLine(file, k, c)
       IN /\ l.model \in {1, 3}
          /\ l.params[2] > 0
          /\ YearsSince(file, k) <= - l.params[2]

\* C9 as stated: an evaluation with a non-positive argument of the logarithm
\* never yields a value and aborts the scan with an error that names the
\* numerical domain problem (Python's ValueError: math domain error)
C9_DomainErrorNamed ==
  \A k \in 1..NumPsdGroups(psd_file) :
    LogDomainAt(psd_file, k) =>
      /\ psd_pc # "done"
      /\ (psd_pc = "raised" /\ psd_pos = 3 * k) =>
           (psd_exc = "ValueError" /\ psd_ret = <<>>)

----------------------------------------------------------------------------
(* The two queries as whole calls, as a caller sees them: the value         *)
(* returned, or the exception raised.  kw is the record of the keyword      *)
(* arguments the caller wrote; binding fails (TypeError) when a parameter   *)
(* without a default is not among them.                                     *)

\* the value of keyword k, or the parameter's default
KwOr(kw, k, default) == IF k \in DOMAIN kw THEN kw[k] ELSE default

\* itrfssc.py lines 150-161: the while loop from `line` on, then the return.
\* SscTurn is the loop body once read_next_record has come back with rec,
\* SscAgain the readline() of line 160 and the next test of the loop.
RECURSIVE SscLoop(_, _, _, _, _)
RECURSIVE SscTurn(_, _, _, _)
RECURSIVE SscAgain(_, _, _, _)
SscAgain(q, r, res, now) == SscLoop(q, r.pos, r.line, res, now)
SscTurn(q, res, rec, now) ==
  IF ~ rec.ok THEN Raise(rec.exc)
  ELSE SscAgain(q, ReadLine(q.ssc_file, rec.pos),
                Select(res, rec.dic, q.station, q.domes, q.t, q.t0), now)
SscLoop(q, pos, line, res, now) ==
  IF line.kind = "eof" THEN Ok(res)
  ELSE SscTurn(q, res, read_next_record(line, q.ssc_file, pos, now), now)

\* lines 145-149 with the arguments bound: upper-case the ids, read the
\* header (h), read the first line
SscBody(q, h, now) ==
  IF ~ h.ok THEN Raise(h.exc)
  ELSE SscAgain([q EXCEPT !.station = UpperAll(q.station)],
                ReadLine(q.ssc_file, h.pos), <<>>, now)

\* def itrf_extrapolate(ssc_file, t0, t=now(), station=[], domes=[])
itrf_extrapolate(kw, now) ==
  IF ~ ({"ssc_file", "t0"} \subseteq DOMAIN kw) THEN Raise("TypeError")
  ELSE SscBody([ssc_file |-> kw.ssc_file, t0 |-> kw.t0,
                t |-> KwOr(kw, "t", <<OrdJan1(now), 0, 0>>),
                station |-> KwOr(kw, "station", <<>>),
                domes |-> KwOr(kw, "domes", <<>>)],
               read_header(kw.ssc_file, 0), now)

\* compute_psd.py lines 150-164: the while loop from `line` on, then the
\* return of the 5-tuple.  PsdTurn is the loop body once get_next_psd has
\* come back with ev, PsdAdded what follows the additions (b), PsdAgain the
\* readline() of line 162 and the next test of the loop.
RECURSIVE PsdLoop(_, _, _, _, _)
RECURSIVE PsdTurn(_, _, _, _)
RECURSIVE PsdAdded(_, _, _, _)
RECURSIVE PsdAgain(_, _, _, _)
PsdAgain(q, r, a, now) == PsdLoop(q, r.pos, r.line, a, now)
PsdAdded(q, ev, b, now) ==
  IF ~ b.ok THEN Raise(b.exc)
  ELSE PsdAgain(q, ReadLine(q.psd_file, ev.pos), b.val, now)
PsdTurn(q, a, ev, now) ==
  IF ~ ev.ok THEN Raise(ev.exc)
  ELSE PsdAdded(q, ev,
                IF Matches(q.station, q.domes, ev.sta, ev.dms)
                THEN Accumulate(a, ev, q.t) ELSE Ok(a),
                now)
PsdLoop(q, pos, line, a, now) ==
  IF line.kind = "eof"
  THEN Ok(<<a.sta_def, a.dms_def, a.de, a.dn, a.du>>)
  ELSE PsdTurn(q, a, get_next_psd(q.psd_file, pos, line, now), now)

\* lines 141-149 with the arguments bound: the locals, the assert, the first
\* line
PsdBody(q, now) ==
  IF GivenStation(q.station) /\ GivenDomes(q.domes)
  THEN Raise("AssertionError")
  ELSE PsdAgain(q, ReadLine(q.psd_file, 0),
                [de |-> 0, dn |-> 0, du |-> 0, num_of_psd |-> 0,
                 sta_def |-> IF GivenStation(q.station)
                             THEN q.station ELSE Blank4,
                 dms_def |-> IF GivenDomes(q.domes) THEN q.domes ELSE Blank9],
                now)

\* def compute_psd(psd_file, t=now(), station=None, domes=None)
compute_psd(kw, now) ==
  IF ~ ("psd_file" \in DOMAIN kw) THEN Raise("TypeError")
  ELSE PsdBody([psd_file |-> kw.psd_file,
                t |-> KwOr(kw, "t", <<OrdJan1(now), 0, 0>>),
                station |-> KwOr(kw, "station", <<>>),
                domes |-> KwOr(kw, "domes", "")], now)

----------------------------------------------------------------------------
(* itrf_tool.py *)

\* `a, b, c = value`: a tuple of any other length is a ValueError
Unpack3(value) == IF Len(value) = 3 THEN Ok(value) ELSE Raise("ValueError")

\* line 84, the first statement of the loop of line 82: compute_psd returns
\* a 5-tuple (psd), unpacked into e, n, u.  Nothing is added or printed before
\* it, and lines 85-93 are reached only if the unpacking succeeds.
ToolFirstTurn(psd) == IF ~ psd.ok THEN psd ELSE Unpack3(psd.val)

\* lines 79-98 once line 78 has returned r1 and line 79 r2: the exception
\* that ends the script, or the list the last loop prints
ToolAfterSsc(a, r1, r2, now) ==
  IF ~ r1.ok THEN r1
  ELSE IF ~ r2.ok THEN r2
  ELSE IF Len(r1.val \o r2.val) = 0 THEN Ok(<<>>)
  ELSE ToolFirstTurn(
         compute_psd([psd_file |-> a.psd_file, t |-> a.t,
                      station |-> (r1.val \o r2.val)[1].station], now))

\* the end of the script
ToolEnd(out) ==
  IF out.ok
  THEN tool_pc' = "done" /\ tool_exc' = "" /\ tool_out' = out.val
  ELSE tool_pc' = "raised" /\ tool_exc' = out.exc /\ tool_out' = <<>>

\* lines 77-98 of the script.  Line 78 calls itrf_extrapolate with ssc_file,
\* t and station, line 79 with ssc_file, t and domes.
ItrfTool ==
  /\ tool_pc = "start"
  /\ ToolEnd(ToolAfterSsc(tool_args,
               itrf_extrapolate([ssc_file |-> tool_args.ssc_file,
                                 t |-> tool_args.t,
                                 station |-> tool_args.stations], now_year),
               itrf_extrapolate([ssc_file |-> tool_args.ssc_file,
                                 t |-> tool_args.t,
                                 domes |-> tool_args.domes], now_year),
               now_year))
  /\ UNCHANGED <<tool_args, now_year, ssc_vars, psd_vars, fn_vars>>

\* the catalogs of the script in the model: at most one record, one event
ToolSscFiles == { SscPreamble \o Flatten(g) : g \in SeqsUpTo(SscRecords, 1) }
ToolPsdFiles == { Flatten(g) : g \in SeqsUpTo(PsdEvents, 1) }

\* the script after parse_args: one station or none, one domes or none
InitTool ==
  /\ now_year \in NowYears
  /\ \E s \in {<<>>, <<gras>>}, d \in {<<>>, <<"10002M006">>},
        f \in ToolSscFiles, p \in ToolPsdFiles, t \in SscQueryTimes :
       tool_args = [stations |-> s, domes |-> d, ssc_file |-> f,
                    psd_file |-> p, t |-> t]
  /\ tool_pc = "start"
  /\ tool_out = <<>>
  /\ tool_exc = ""
  /\ InitSscIdle
  /\ InitPsdIdle
  /\ InitFnIdle

NextTool == ItrfTool

SpecTool == InitTool /\ [][NextTool]_vars

----------------------------------------------------------------------------
(* What the claim on the script speaks about *)

\* the k-th record of the script's SSC file has a baseline result: it is
\* asked for by id or by domes and valid at t
ToolBaseline(k) ==
  LET l == PosLineOf(tool_args.ssc_file, k)
      v == Validity(l.dates, now_year).val
  IN /\ \/ \E i \in 1..Len(tool_args.stations) :
             Upper(tool_args.stations[i]) = l.id
        \/ \E i \in 1..Len(tool_args.domes) : tool_args.domes[i] = l.domes
     /\ DtLe(v.start, tool_args.t) /\ DtLt(tool_args.t, v.stop)

\* the k-th record's coordinates moved from the header's reference epoch to t
ToolBaselineEntry(k) ==
  ResultEntry(read_next_record(PosLineOf(tool_args.ssc_file, k),
                               tool_args.ssc_file,
                               FirstRecordLine + 2 * (k - 1), now_year).dic,
              tool_args.t, read_header(tool_args.ssc_file, 0).refepoch)

\* both catalogs are well formed and no event of the PSD file is of a station
\* with a baseline result
ToolInputsPlain ==
  /\ AllDomesAgree(tool_args.ssc_file)
  /\ \A g \in 1..NumPsdGroups(tool_args.psd_file) :
       /\ ProperLetters(tool_args.psd_file, g)
       /\ ProperTags(tool_args.psd_file, g)
       /\ ProperArity(tool_args.psd_file, g)
       /\ \A k \in 1..NumSscRecords(tool_args.ssc_file) :
            ToolBaseline(k) =>
              GroupLine(tool_args.psd_file, g, 1).sta
                # PosLineOf(tool_args.ssc_file, k).id

\* C11 as stated: once the script has ended on well-formed catalogs, what it
\* printed holds an entry for every record with a baseline result and for
\* nothing else, and with no PSD event of the station the entry carries the
\* baseline coordinates
C11_OutputIsBaseline ==
  (tool_pc \in {"done", "raised"} /\ ToolInputsPlain) =>
    /\ \A k \in 1..NumSscRecords(tool_args.ssc_file) :
         ToolBaseline(k) =>
           \E i \in 1..Len(tool_out) : tool_out[i] = ToolBaselineEntry(k)
    /\ \A i \in 1..Len(tool_out) :
         \E k \in 1..NumSscRecords(tool_args.ssc_file) :
           ToolBaseline(k) /\ tool_out[i] = ToolBaselineEntry(k)

----------------------------------------------------------------------------
(* What the claim on the header speaks about: the first line of the file *)

\* the first line has the layout of a header: eight tokens, the frame name,
\* STATION POSITIONS AT EPOCH, a number with no fraction, AND VELOCITIES
HeaderLayoutOk(file) ==
  /\ Len(file) > 0
  /\ file[1].kind = "hdr"
  /\ Len(file[1].l) = 8
  /\ <<file[1].l[2].s, file[1].l[3].s, file[1].l[4].s, file[1].l[5].s>>
       = <<"STATION", "POSITIONS", "AT", "EPOCH">>
  /\ <<file[1].l[7].s, file[1].l[8].s>> = <<"AND", "VELOCITIES">>
  /\ file[1].l[6].num
  /\ file[1].l[6].f % Scale = 0
\* the reference year written on it
HeaderYear(file) == file[1].l[6].f \div Scale

\* C13, on the states: a scan is under way, or has returned, only on a file
\* whose first line has the header layout; read_header then yields the frame
\* name and Jan 1 of the reference year; with any other first line the call
\* raises with that one line read and no record collected.
C13_HeaderStates ==
  /\ ssc_pc \in {"scan", "done"} =>
       /\ HeaderLayoutOk(ssc_file)
       /\ read_header(ssc_file, 0).ok
       /\ read_header(ssc_file, 0).refframe = ssc_file[1].l[1].s
       /\ read_header(ssc_file, 0).refepoch
            = <<OrdJan1(HeaderYear(ssc_file)), 0, 0>>
  /\ ~ HeaderLayoutOk(ssc_file) =>
       /\ ssc_pc \in {"start", "raised"}
       /\ results = <<>> /\ ssc_ret = <<>>
       /\ ssc_pos <= 1
\* C13, on the step that reads the header: when it succeeds the header line
\* and 6 more lines are consumed, so the line held for the first record is
\* line 8 of the file (end of file when it has fewer lines)
C13_HeaderStep ==
  (ssc_pc = "start" /\ ssc_pc' = "scan") =>
    IF Len(ssc_file) >= 8
    THEN ssc_pos' = 8 /\ ssc_line' = ssc_file[8]
    ELSE ssc_pos' = Len(ssc_file) /\ ssc_line'.kind = "eof"

\* C13: read_header accepts only a first line of the fixed layout, returns
\* the frame name and Jan 1 of the reference year, and leaves the stream
\* after 6 further lines, the first record being read from line 8; any other
\* first line raises before a record is read.
C13_HeaderContract == [] C13_HeaderStates /\ [][C13_HeaderStep]_vars

\* C13's case: a file with records whose first line has one keyword wrong
\* has been rejected with only that line read
C13_Witness ==
  /\ ssc_pc = "raised"
  /\ ssc_pos = 1
  /\ NumSscRecords(ssc_file) > 0
  /\ ssc_file[1].kind = "hdr"
  /\ Len(ssc_file[1].l) = 8
  /\ ssc_file[1].l[6].num
  /\ ssc_file[1].l[4].s # "AT"

----------------------------------------------------------------------------
(* One query at a time, of either kind, on any of the files above *)

InitQuery == InitSSC \/ InitHeader \/ InitPSD
NextQuery == NextSSC \/ NextPSD
SpecQuery == InitQuery /\ [][NextQuery]_vars

\* C12, on the states: the catalog is open only while its scan is under way
\* and is closed once the call has returned or raised; the line in hand is
\* the line last read; a call returns with every line read.
C12_ScanStates ==
  /\ ssc_open => ssc_pc = "scan"
  /\ psd_open => psd_pc = "scan"
  /\ ssc_pc \in {"done", "raised"} => ~ ssc_open
  /\ psd_pc \in {"done", "raised"} => ~ psd_open
  /\ (ssc_pc = "scan" /\ ssc_line.kind # "eof") => ssc_line = ssc_file[ssc_pos]
  /\ (psd_pc = "scan" /\ psd_line.kind # "eof") => psd_line = psd_file[psd_pos]
  /\ ssc_pc = "done" => ssc_pos = Len(ssc_file)
  /\ psd_pc = "done" => psd_pos = Len(psd_file)
\* C12, on the steps: the read position never moves back, a turn after which
\* the scan goes on moves it forward, and the catalog is opened by the first
\* step of the call only
C12_ScanStep ==
  /\ ssc_pos' >= ssc_pos
  /\ psd_pos' >= psd_pos
  /\ (ssc_pc = "scan" /\ ssc_pc' = "scan") => ssc_pos' > ssc_pos
  /\ (psd_pc = "scan" /\ psd_pc' = "scan") => psd_pos' > psd_pos
  /\ (~ ssc_open /\ ssc_open') => ssc_pc = "start"
  /\ (~ psd_open /\ psd_open') => psd_pc = "start"

\* C12: each query opens its catalog once, reads it top to bottom without
\* reading a line twice, and has closed it when control leaves the function,
\* by a return at end of file or by an error raised on the header or on a
\* record.
C12_ScopedScan == [] C12_ScanStates /\ [][C12_ScanStep]_vars

\* C12's case: a record raised in the middle of a scan that had been going
\* on, and the catalog is closed
C12_Witness ==
  /\ ssc_pc = "raised"
  /\ ssc_pos > 8 /\ ssc_pos <= Len(ssc_file)
  /\ ~ ssc_open

----------------------------------------------------------------------------
(* A direct call of parametric(model, dtq, *params) *)

\* the call returns or raises
CallParametric ==
  /\ fn_call.fn = "parametric"
  /\ fn_ret = <<>>
  /\ fn_ret' = <<parametric(fn_call.model, fn_call.args)>>
  /\ UNCHANGED <<fn_call, now_year, ssc_vars, psd_vars, tool_vars>>

\* amplitudes (mm) and relaxation times (years) of the calls; a relaxation
\* time may be negative or zero
EvalAmplitudes == {10000, -5000}
EvalTimes == {1000, -500, 0}
\* dtq: the event epoch itself, one year after it, half a year before it
EvalDtq == {0, Scale, -(Scale \div 2)}
\* the tags with the parameters each model takes
EvalPairs == { <<a, t>> : a \in EvalAmplitudes, t \in EvalTimes }
EvalModels ==
  { [model |-> m, params |-> <<>>] : m \in {IntTag(0), StrTag("pwl")} }
  \cup { [model |-> m, params |-> p] :
           m \in {IntTag(1), IntTag(2), StrTag("log"), StrTag("exp")},
           p \in EvalPairs }
  \cup { [model |-> m, params |-> p \o q] :
           m \in {IntTag(3), IntTag(4), StrTag("logexp"), StrTag("expexp")},
           p \in EvalPairs, q \in EvalPairs }

InitEval ==
  /\ now_year \in NowYears
  /\ \E m \in EvalModels, d \in EvalDtq :
       fn_call = [fn |-> "parametric", model |-> m.model,
                  args |-> <<d>> \o m.params]
  /\ fn_ret = <<>>
  /\ InitSscIdle
  /\ InitPsdIdle
  /\ InitToolIdle

\* a direct call of the evaluator, or a PSD query (which calls it with the
\* integer tags of the file)
InitEvalOrPsd == InitEval \/ InitPSD
NextEval == CallParametric \/ NextPSD
SpecEval == InitEvalOrPsd /\ [][NextEval]_vars

\* the relaxation times among the arguments (dtq, a1, t1[, a2, t2])
RelaxationTimes(args) == { args[i] : i \in { j \in 2..Len(args) : j % 2 = 1 } }

\* C14: with any of the five tags, as an integer or as its string alias, and
\* relaxation times that are not zero, parametric returns 0 at dtq = 0; so a
\* PSD query at the very epoch of the events it matches returns (0, 0, 0).
C14_ZeroAtEpoch ==
  /\ ( /\ fn_call.fn = "parametric"
       /\ fn_ret # <<>>
       /\ fn_call.args[1] = 0
       /\ 0 \notin RelaxationTimes(fn_call.args) )
     => (fn_ret[1].ok /\ fn_ret[1].val = 0)
  /\ ( /\ psd_pc = "done"
       /\ \A k \in AskedEvents(psd_file) : YearsSince(psd_file, k) = 0 )
     => (psd_ret[1].de = 0 /\ psd_ret[1].dn = 0 /\ psd_ret[1].du = 0)

\* C14's case: the sum of two exponentials, called by its alias with
\* amplitudes of either sign and a negative relaxation time, has returned 0
C14_Witness ==
  /\ fn_call.fn = "parametric"
  /\ fn_call.model = StrTag("expexp")
  /\ fn_call.args = <<0, 10000, -500, -5000, 1000>>
  /\ fn_ret = <<Ok(0)>>

----------------------------------------------------------------------------
\* the catalog positions (x0, y0, z0) of the wanted records among the first
\* n, in catalog order
RECURSIVE WantedPositions(_, _)
WantedPositions(file, n) ==
  IF n = 0 THEN <<>>
  ELSE IF Wanted(file, n)
       THEN Append(WantedPositions(file, n - 1), PosLineOf(file, n).pos)
       ELSE WantedPositions(file, n - 1)

\* C15: extrapolate at dtq = 0 gives back x0 whatever the velocity, on each
\* axis; so a query at t = t0 returns, for every record it selects, the
\* position written in the catalog.
C15_IdentityAtRefEpoch ==
  /\ \A i \in 1..Len(ssc_file) :
       ssc_file[i].kind = "A" =>
         \A c \in 1..3, v \in {-5, 0, 10, 20, 1000000} :
           extrapolate(0, ssc_file[i].pos[c], v) = ssc_file[i].pos[c]
  /\ (ssc_pc = "done" /\ ssc_t = ssc_t0) =>
       [i \in 1..Len(ssc_ret[1]) |->
          <<ssc_ret[1][i].x, ssc_ret[1][i].y, ssc_ret[1][i].z>>]
         = WantedPositions(ssc_file, NumSscRecords(ssc_file))

\* C15's case: a query at t = t0 has returned two records
C15_Witness ==
  /\ ssc_pc = "done"
  /\ ssc_t = ssc_t0
  /\ Len(ssc_ret[1]) = 2
  /\ ssc_ret[1][1].x = PosLineOf(ssc_file, 1).pos[1]
  /\ VelLineOf(ssc_file, 1).vel[1] # 0

----------------------------------------------------------------------------
(* A direct call of time_str2dt(time_str), of the package or of the script *)

CallTimeStr2dt ==
  /\ fn_call.fn = "time_str2dt"
  /\ fn_call.module = "itrftools.compute_psd"
  /\ fn_ret = <<>>
  /\ fn_ret' = <<time_str2dt(fn_call.time_str, now_year)>>
  /\ UNCHANGED <<fn_call, now_year, ssc_vars, psd_vars, tool_vars>>

CallTimeStr2dtScript ==
  /\ fn_call.fn = "time_str2dt"
  /\ fn_call.module = "compute_psd"
  /\ fn_ret = <<>>
  /\ fn_ret' = <<time_str2dt_script(fn_call.time_str, now_year)>>
  /\ UNCHANGED <<fn_call, now_year, ssc_vars, psd_vars, tool_vars>>

\* the years the process may run in
TimeNowYears == {2000, 2017, 2026}
\* "YY:DDD:SSSSS" for every YY, the first and the 365th day, the first and
\* the last second of the day
TimeStrings == [yy : 0..99, doy : {1, 365}, sec : {0, SecPerDay - 1}]

InitTime ==
  /\ now_year \in TimeNowYears
  /\ \E ts \in TimeStrings, m \in {"itrftools.compute_psd", "compute_psd"} :
       fn_call = [fn |-> "time_str2dt", module |-> m, time_str |-> ts]
  /\ fn_ret = <<>>
  /\ InitSscIdle
  /\ InitPsdIdle
  /\ InitToolIdle

NextTime == CallTimeStr2dt \/ CallTimeStr2dtScript
SpecTime == InitTime /\ [][NextTime]_vars

\* the instant `days` days and `sec` seconds (less than a day) after Jan 1 of
\* year y
InstantOf(y, days, sec) == <<OrdJan1(y) + days, sec, 0>>

\* C16 as stated: what time_str2dt returns for YY:DDD:SSSSS is Jan 1 of a year
\* Y plus DDD-1 days plus SSSSS seconds, where Y is 1900+YY or 2000+YY and
\* is not later than the year the process runs in
C16_NotLaterThanNow ==
  (fn_call.fn = "time_str2dt" /\ fn_ret # <<>>) =>
    \E y \in {1900 + fn_call.time_str.yy, 2000 + fn_call.time_str.yy} :
      /\ y <= now_year
      /\ fn_ret[1] = InstantOf(y, fn_call.time_str.doy - 1,
                               fn_call.time_str.sec)

----------------------------------------------------------------------------
(* Events dated after the query epoch                                      *)

\* the asked events dated after the query epoch, and the others
LaterEvents(file) == { k \in AskedEvents(file) : YearsSince(file, k) < 0 }
EarlierEvents(file) == { k \in AskedEvents(file) : YearsSince(file, k) >= 0 }

\* sum of component c over the events of `among` numbered up to n
RECURSIVE SumAmong(_, _, _, _)
SumAmong(file, among, n, c) ==
  IF n = 0 THEN 0
  ELSE SumAmong(file, among, n - 1, c)
       + (IF n \in among THEN EventValue(file, n, c).val ELSE 0)

\* C17: an event of the requested station dated after the query epoch is
\* not left out: it is counted, evaluated at its negative number of years,
\* and its value is in the totals beside the values of the events dated
\* before the query epoch.
C17_LaterEventsSummed ==
  psd_pc = "done" =>
    /\ acc.num_of_psd = Cardinality(EarlierEvents(psd_file))
                        + Cardinality(LaterEvents(psd_file))
    /\ \A c \in 1..3 :
         <<psd_ret[1].de, psd_ret[1].dn, psd_ret[1].du>>[c] =
           SumAmong(psd_file, EarlierEvents(psd_file),
                    NumPsdGroups(psd_file), c)
           + SumAmong(psd_file, LaterEvents(psd_file),
                      NumPsdGroups(psd_file), c)

\* C17's case: one asked event before the query epoch and one after it,
\* the later one with a non-zero East value that is in the total
C17_Witness ==
  /\ psd_pc = "done"
  /\ Cardinality(EarlierEvents(psd_file)) = 1
  /\ \E k \in LaterEvents(psd_file) :
       /\ YearsSince(psd_file, k) < 0
       /\ EventValue(psd_file, k, 1).val # 0
       /\ psd_ret[1].de # SumAmong(psd_file, EarlierEvents(psd_file),
                                   NumPsdGroups(psd_file), 1)

----------------------------------------------------------------------------
(* Queries over records with open validity, up to the last instant         *)

\* validity fields: none, both the sentinel, one sentinel on either side,
\* two dates
OpenDates ==
  {<<>>, <<Sentinel, Sentinel>>, <<Sentinel, EpochB>>, <<EpochB, Sentinel>>,
   <<EpochA, EpochB>>}
OpenSites == { <<"10002M006", GRAS>>, <<"20805M002", ANKR>> }
OpenRecords ==
  { <<PositionLine(s[1], s[2], c, dt), VelocityLineOf(s[1], c)>> :
      s \in OpenSites, c \in SscCoords, dt \in OpenDates }
OpenFiles ==
  { SscPreamble \o Flatten(g) : g \in SeqsUpTo(OpenRecords, MaxRecords) }
\* query epochs: before EpochA, inside [EpochA, EpochB), EpochB, and
\* datetime.max
OpenQueryTimes ==
  {<<OrdJan1(2003), 0, 0>>, DatetimeMax} \cup SscQueryTimes

InitOpenEnded ==
  /\ now_year \in NowYears
  /\ ssc_file \in OpenFiles
  /\ ssc_t0 = <<OrdJan1(2010), 0, 0>>
  /\ ssc_t \in OpenQueryTimes
  /\ ssc_station \in {<<>>, <<gras>>}
  /\ ssc_domes \in {<<>>, <<"10002M006">>}
  /\ ssc_pc = "start"
  /\ ssc_open = FALSE
  /\ ssc_pos = 0
  /\ ssc_line = EOF
  /\ results = <<>>
  /\ ssc_ret = <<>>
  /\ ssc_exc = ""
  /\ InitPsdIdle
  /\ InitToolIdle
  /\ InitFnIdle

SpecOpenEnded == InitOpenEnded /\ [][NextSSC]_vars

\* the validity fields written on the k-th record
DatesOf(file, k) == PosLineOf(file, k).dates
\* what the fields say about t when the sentinel means "no bound on this
\* side"
StartAdmits(file, k, t) ==
  \/ DatesOf(file, k) = <<>>
  \/ DatesOf(file, k)[1] = Sentinel
  \/ DtLe(time_str2dt(DatesOf(file, k)[1], now_year), t)
StopAdmits(file, k, t) ==
  \/ DatesOf(file, k) = <<>>
  \/ DatesOf(file, k)[2] = Sentinel
  \/ DtLt(t, time_str2dt(DatesOf(file, k)[2], now_year))
Asked(file, k) == AskedById(file, k) \/ AskedByDomes(file, k)

\* C18 as stated: a record without validity fields, or with the sentinel in
\* both, is selected for a matching request at every query epoch, and a
\* record with one sentinel is bounded only by its other field: the entries
\* returned are as many as the asked records whose written bounds admit t
C18_OpenEndedEveryEpoch ==
  ssc_pc = "done" =>
    Len(ssc_ret[1]) =
      Cardinality({ k \in 1..NumSscRecords(ssc_file) :
                      /\ Asked(ssc_file, k)
                      /\ StartAdmits(ssc_file, k, ssc_t)
                      /\ StopAdmits(ssc_file, k, ssc_t) })

----------------------------------------------------------------------------
(* The two ends of a validity interval                                     *)

\* the records of the k-th record's station, and the entries returned for it
RecordsOf(file, k) ==
  { m \in 1..NumSscRecords(file) : SameStation(file, k, m) }
EntriesOf(file, k, res) ==
  { i \in 1..Len(res) : /\ res[i].station = PosLineOf(file, k).id
                        /\ res[i].domes = PosLineOf(file, k).domes }

\* C19: an asked record is selected iff start <= t < stop, so the station
\* has as many entries as records with t in [start, stop): a record that
\* starts at t is selected, records that stop at t are not, and of two
\* records of a station that meet at t only the second is selected.
C19_HalfOpenValidity ==
  ssc_pc = "done" =>
    \A k \in 1..NumSscRecords(ssc_file) :
      Asked(ssc_file, k) =>
        /\ Cardinality(EntriesOf(ssc_file, k, ssc_ret[1])) =
             Cardinality({ m \in RecordsOf(ssc_file, k) :
                             /\ DtLe(StartOf(ssc_file, m), ssc_t)
                             /\ DtLt(ssc_t, StopOf(ssc_file, m)) })
        /\ (ssc_t = StartOf(ssc_file, k)) =>
             EntriesOf(ssc_file, k, ssc_ret[1]) # {}
        /\ (\A m \in RecordsOf(ssc_file, k) : ssc_t = StopOf(ssc_file, m)) =>
             EntriesOf(ssc_file, k, ssc_ret[1]) = {}
        /\ \A m \in RecordsOf(ssc_file, k) :
             ( /\ RecordsOf(ssc_file, k) = {k, m}
               /\ StopOf(ssc_file, k) = StartOf(ssc_file, m)
               /\ ssc_t = StartOf(ssc_file, m) )
             => Cardinality(EntriesOf(ssc_file, k, ssc_ret[1])) = 1

\* C19's case: an asked station whose first record starts at the query
\* epoch and whose second record stops at it: one entry, for the first
C19_Witness ==
  /\ ssc_pc = "done"
  /\ NumSscRecords(ssc_file) = 2
  /\ SameStation(ssc_file, 1, 2)
  /\ Asked(ssc_file, 1)
  /\ StartOf(ssc_file, 1) = ssc_t
  /\ StopOf(ssc_file, 2) = ssc_t
  /\ Len(ssc_ret[1]) = 1

====
